---- MODULE Spec2Model ----
(***************************************************************************)
(* Model of server/vad_processor.py: the command-line entry point and      *)
(* process_audio, the voice-activity segmentation pipeline.                *)
(*                                                                         *)
(* One action per stage of process_audio.  A stage that raises runs the    *)
(* `except Exception` handler of lines 132-138 in the same step (Raise).   *)
(* The collaborators (torch.hub, torchaudio, librosa, the detector,        *)
(* soundfile) are modelled at the call: every outcome they can have is a   *)
(* nondeterministic choice.                                                *)
(***************************************************************************)
EXTENDS Integers, Sequences, FiniteSets, TLC

\* ------------------------------------------------------------------ bounds
\* longest interval list the detector returns in the model
MaxIntervals == 3
\* longest decoded file, in samples at the native rate
MaxLen == 34

\* ------------------------------------------------------- program constants
\* the canonical rate: librosa.resample target, detector sampling_rate,
\* soundfile.write rate
TargetRate == 16000
\* samples per millisecond: the divisor of lines 115, 121, 122
SamplesPerMs == 16
\* len(sys.argv) of a well-formed invocation (line 147)
ExpectedArgc == 3

\* native rates of the input files drawn in the model
Rates == {8000, 16000, 32000}
\* lengths (in samples) of the input files drawn in the model
NativeLens == {8, MaxLen}
\* input paths drawn in the model
Paths == {"a.wav", "b.mp3"}
output_dir == "out"

VARIABLES
    pc,                 \* position in __main__ / process_audio
    argc,               \* len(sys.argv)
    input_path,         \* sys.argv[1]
    input_is_file,      \* Path(input_path).is_file()
    dir_exists,         \* the output directory exists on disk
    disk,               \* segment files in the output directory
    cache,              \* torch hub cache entry of the model repository
    netAccess,          \* acquisition strategies that touched the network
    failures,           \* caught acquisition failures, in order
    vad_model,          \* 0, or the strategy whose load produced the model
    original_sr,        \* native rate returned by torchaudio.load
    audio,              \* the working audio buffer
    detector_input,     \* the buffer handed to get_speech_timestamps
    speech_timestamps,  \* the detector's interval list
    i,                  \* loop index of the extraction loop (0-based)
    segments_info,      \* the list built by the loop
    written,            \* indices k whose segment_k.wav was written this run
    result,             \* value returned by process_audio
    stdout,             \* lines written to sys.stdout
    stderr,             \* lines written to sys.stderr
    exit_code,          \* -1 while running
    started,            \* stages started, in order
    initial             \* the output directory before the run (never changes)

vars == <<pc, argc, input_path, input_is_file, dir_exists, disk, cache,
          netAccess, failures, vad_model, original_sr, audio, detector_input,
          speech_timestamps, i, segments_info, written, result, stdout,
          stderr, exit_code, started, initial>>

fsVars == <<dir_exists, disk, written>>
acqVars == <<cache, netAccess, failures, vad_model>>
audioVars == <<original_sr, audio, detector_input, speech_timestamps>>
loopVars == <<i, segments_info>>
argVars == <<argc, input_path, input_is_file, initial>>

\* ----------------------------------------------------------------- values
NoResult == [status |-> "none"]
NoAudio == [channel |-> -1, rate |-> 0, len |-> 0, resamples |-> 0]

StaleFile == [n |-> MaxIntervals, from |-> 0, to |-> 0, rate |-> TargetRate,
              subtype |-> "PCM_16", channel |-> 0, state |-> "stale"]

\* the stage names of process_audio, in the order of the source text
StageOrder == <<"validate", "mkdir", "acquire", "normalize", "detect",
                "extract", "result">>

Init ==
    /\ pc = "main"
    /\ argc \in {ExpectedArgc - 1, ExpectedArgc, ExpectedArgc + 1}
    /\ input_path \in Paths
    /\ input_is_file \in BOOLEAN
    /\ dir_exists \in BOOLEAN
    /\ disk \in (IF dir_exists THEN {{}, {StaleFile}} ELSE {{}})
    /\ cache \in {"absent", "empty", "valid"}
    /\ netAccess = {}
    /\ failures = <<>>
    /\ vad_model = 0
    /\ original_sr = 0
    /\ audio = NoAudio
    /\ detector_input = NoAudio
    /\ speech_timestamps = <<>>
    /\ i = 0
    /\ segments_info = <<>>
    /\ written = <<>>
    /\ result = NoResult
    /\ stdout = <<>>
    /\ stderr = <<>>
    /\ exit_code = -1
    /\ started = <<>>
    /\ initial = [dir_exists |-> dir_exists, disk |-> disk]

\* ------------------------------------------------------ the except handler
\* the handler catching FileNotFoundError only: anything else propagates
Raise_Narrow(out, msg) ==
    IF msg[1] = "Input audio file not found: "
    THEN /\ stdout' = Append(out, "Error in process_audio")
         /\ result' = [status |-> "error", error |-> msg]
         /\ pc' = "return"
    ELSE /\ stdout' = out
         /\ result' = result
         /\ pc' = "raised"

\* lines 132-138: str(e) is printed and returned in the error shape
Raise(out, msg) ==
    /\ stdout' = Append(out, "Error in process_audio")
    /\ result' = [status |-> "error", error |-> msg]
    /\ pc' = "return"

\* ------------------------------------------------------------ entry point
\* lines 144-152: wrong argument count
MainBadArgs ==
    /\ pc = "main"
    /\ argc # ExpectedArgc
    /\ stderr' = stderr \o <<"Python version", "Arguments received">>
    /\ stdout' = Append(stdout, "usage error JSON")
    /\ exit_code' = 1
    /\ pc' = "exited"
    /\ UNCHANGED <<argVars, fsVars, acqVars, audioVars, loopVars, result,
                   started>>

\* lines 144-161: well-formed invocation, process_audio is called
MainCall ==
    /\ pc = "main"
    /\ argc = ExpectedArgc
    /\ stderr' = stderr \o <<"Python version", "Arguments received",
                             "Input path", "Output directory">>
    /\ pc' = "validate"
    /\ UNCHANGED <<argVars, fsVars, acqVars, audioVars, loopVars, result,
                   stdout, exit_code, started>>

\* line 162: print(result)
MainPrint ==
    /\ pc = "return"
    /\ stdout' = Append(stdout, "PipelineResult JSON")
    /\ exit_code' = 0
    /\ pc' = "exited"
    /\ UNCHANGED <<argVars, fsVars, acqVars, audioVars, loopVars, result,
                   stderr, started>>

\* ------------------------------------------------------------ process_audio
\* the output directory created before the input is checked
ValidateInput_AfterMkdir ==
    /\ pc = "validate"
    /\ started' = Append(started, "validate")
    /\ dir_exists' = TRUE
    /\ IF input_is_file
       THEN /\ pc' = "mkdir"
            /\ UNCHANGED <<result, stdout>>
       ELSE Raise(stdout, <<"Input audio file not found: ", input_path>>)
    /\ UNCHANGED <<argVars, disk, written, acqVars, audioVars, loopVars,
                   stderr, exit_code>>

\* lines 15-16
ValidateInput ==
    /\ pc = "validate"
    /\ started' = Append(started, "validate")
    /\ IF input_is_file
       THEN /\ pc' = "mkdir"
            /\ UNCHANGED <<result, stdout>>
       ELSE Raise(stdout, <<"Input audio file not found: ", input_path>>)
    /\ UNCHANGED <<argVars, fsVars, acqVars, audioVars, loopVars, stderr,
                   exit_code>>

\* a mkdir failure recorded but not short-circuiting
EnsureOutputDir_Swallow ==
    /\ pc = "mkdir"
    /\ started' = Append(started, "mkdir")
    /\ \E ok \in BOOLEAN :
         IF ok \/ dir_exists
         THEN /\ dir_exists' = TRUE
              /\ pc' = "load1"
              /\ UNCHANGED <<result, stdout>>
         ELSE /\ stdout' = Append(stdout, "Error in process_audio")
              /\ result' = [status |-> "error",
                            error |-> <<"mkdir failed: ", output_dir>>]
              /\ pc' = "load1"
              /\ UNCHANGED dir_exists
    /\ UNCHANGED <<argVars, disk, written, acqVars, audioVars, loopVars,
                   stderr, exit_code>>

\* lines 19-20: mkdir(parents=True, exist_ok=True)
EnsureOutputDir ==
    /\ pc = "mkdir"
    /\ started' = Append(started, "mkdir")
    /\ \E ok \in BOOLEAN :
         IF ok \/ dir_exists
         THEN /\ dir_exists' = TRUE
              /\ pc' = "load1"
              /\ UNCHANGED <<result, stdout>>
         ELSE /\ Raise(stdout, <<"mkdir failed: ", output_dir>>)
              /\ UNCHANGED dir_exists
    /\ UNCHANGED <<argVars, disk, written, acqVars, audioVars, loopVars,
                   stderr, exit_code>>

\* ------------------------------------------------------- model acquisition
\* torch.hub.load(repo_or_dir='snakers4/silero-vad', ...) with the default
\* source='github'.  c is the state of the hub cache entry of the repository
\* ("absent", "empty" directory, or "valid" checkout).  torch.hub uses the
\* cached checkout when force_reload is false and the entry exists, and
\* downloads the repository otherwise.
UseCache(force_reload, c) == (~force_reload) /\ c # "absent"

\* netUp: the network answers; entryOk: the hubconf entry point builds the
\* model; probe: the branch lookup of a cached load reached for the network.
\* The result is the outcome of one load call.
HubLoad(force_reload, c, netUp, entryOk, probe) ==
    IF UseCache(force_reload, c)
    THEN [ok |-> (c = "valid" /\ entryOk), cache |-> c, net |-> probe]
    ELSE [ok |-> (netUp /\ entryOk),
          cache |-> (IF netUp THEN "valid" ELSE c),
          net |-> TRUE]

\* lines 34-38: the load call of strategy 1
LoadOnline(c, netUp, entryOk, probe) ==
    HubLoad(FALSE, c, netUp, entryOk, probe)

\* lines 44-47: the load call of strategy 2 (the same call without verbose)
LoadFromCache(c, netUp, entryOk, probe) ==
    HubLoad(FALSE, c, netUp, entryOk, probe)

\* lines 72-75: the load call of strategy 3
LoadAfterDownload(c, netUp, entryOk, probe) ==
    HubLoad(TRUE, c, netUp, entryOk, probe)

LoadingBanner == <<"Loading VAD model...", "Python executable",
                   "Torch version", "Torch hub cache location">>

\* lines 23-42: the banner, then strategy 1
Load1 ==
    /\ pc = "load1"
    /\ started' = Append(started, "acquire")
    /\ \E mk \in BOOLEAN, netUp \in BOOLEAN, entryOk \in BOOLEAN,
          probe \in BOOLEAN :
         IF ~mk
         THEN \* os.makedirs(cache_dir) raised
              /\ failures' = Append(failures,
                     [strategy |-> 1, msg |-> "s1: makedirs error"])
              /\ stdout' = stdout \o LoadingBanner \o
                     <<"Error loading model from online repository",
                       "Attempting to load from local cache...">>
              /\ pc' = "load2"
              /\ UNCHANGED <<cache, netAccess, vad_model>>
         ELSE LET r == LoadOnline(cache, netUp, entryOk, probe) IN
              /\ cache' = r.cache
              /\ netAccess' = IF r.net THEN netAccess \cup {1} ELSE netAccess
              /\ IF r.ok
                 THEN /\ vad_model' = 1
                      /\ stdout' = stdout \o LoadingBanner \o
                             <<"Verified cache directory exists",
                               "Successfully loaded VAD model from online repository">>
                      /\ pc' = "decode"
                      /\ UNCHANGED failures
                 ELSE /\ failures' = Append(failures,
                             [strategy |-> 1, msg |-> "s1: hub load error"])
                      /\ stdout' = stdout \o LoadingBanner \o
                             <<"Verified cache directory exists",
                               "Error loading model from online repository",
                               "Attempting to load from local cache...">>
                      /\ pc' = "load2"
                      /\ UNCHANGED vad_model
    /\ UNCHANGED <<argVars, fsVars, audioVars, loopVars, result, stderr,
                   exit_code>>

\* lines 43-51: strategy 2
Load2 ==
    /\ pc = "load2"
    /\ \E netUp \in BOOLEAN, entryOk \in BOOLEAN, probe \in BOOLEAN :
         LET r == LoadFromCache(cache, netUp, entryOk, probe) IN
         /\ cache' = r.cache
         /\ netAccess' = IF r.net THEN netAccess \cup {2} ELSE netAccess
         /\ IF r.ok
            THEN /\ vad_model' = 2
                 /\ stdout' = Append(stdout,
                        "Successfully loaded VAD model from local cache")
                 /\ pc' = "decode"
                 /\ UNCHANGED failures
            ELSE /\ failures' = Append(failures,
                        [strategy |-> 2, msg |-> "s2: hub load error"])
                 /\ stdout' = stdout \o
                        <<"Failed to load VAD model (both online and cache)",
                          "Attempting emergency fallback to direct download...">>
                 /\ pc' = "load3"
                 /\ UNCHANGED vad_model
    /\ UNCHANGED <<argVars, fsVars, audioVars, loopVars, result, stderr,
                   exit_code, started>>

\* the final error carrying the first failure instead of the last
AllFailed_First(msg) ==
    <<"All attempts to load VAD model failed: ", failures[1].msg>>

\* line 78: the error raised when strategy 3 has failed
AllFailed(msg) == <<"All attempts to load VAD model failed: ", msg>>

\* lines 52-78: strategy 3
Load3 ==
    /\ pc = "load3"
    /\ \E mk \in BOOLEAN, fetch \in BOOLEAN, netUp \in BOOLEAN,
          entryOk \in BOOLEAN :
         LET made == IF cache = "absent" THEN "empty" ELSE cache
             r == LoadAfterDownload(made, netUp, entryOk, FALSE)
         IN
         IF ~mk
         THEN \* os.makedirs(model_dir) raised
              /\ failures' = Append(failures,
                     [strategy |-> 3, msg |-> "s3: makedirs error"])
              /\ Raise(stdout, AllFailed("s3: makedirs error"))
              /\ UNCHANGED <<cache, netAccess, vad_model>>
         ELSE IF ~fetch
         THEN \* urlretrieve or the archive extraction raised
              /\ cache' = made
              /\ netAccess' = netAccess \cup {3}
              /\ failures' = Append(failures,
                     [strategy |-> 3, msg |-> "s3: urlretrieve error"])
              /\ Raise(Append(stdout, "Downloading model files directly..."),
                       AllFailed("s3: urlretrieve error"))
              /\ UNCHANGED vad_model
         ELSE /\ cache' = r.cache
              /\ netAccess' = netAccess \cup {3}
              /\ IF r.ok
                 THEN /\ vad_model' = 3
                      /\ stdout' = stdout \o
                             <<"Downloading model files directly...",
                               "Downloaded and extracted model files",
                               "Successfully loaded VAD model after direct download">>
                      /\ pc' = "decode"
                      /\ UNCHANGED <<failures, result>>
                 ELSE /\ failures' = Append(failures,
                             [strategy |-> 3, msg |-> "s3: hub load error"])
                      /\ Raise(stdout \o
                                 <<"Downloading model files directly...",
                                   "Downloaded and extracted model files">>,
                               AllFailed("s3: hub load error"))
                      /\ UNCHANGED vad_model
    /\ UNCHANGED <<argVars, fsVars, audioVars, loopVars, stderr, exit_code,
                   started>>

\* ------------------------------------------------------ audio normalisation
\* lines 84-87: torchaudio.load, then the first channel is selected
Decode ==
    /\ pc = "decode"
    /\ started' = Append(started, "normalize")
    /\ \E ok \in BOOLEAN, sr \in Rates, n \in NativeLens :
         IF ok
         THEN /\ original_sr' = sr
              /\ audio' = [channel |-> 0, rate |-> sr, len |-> n,
                           resamples |-> 0]
              /\ pc' = "resample"
              /\ UNCHANGED <<result, stdout>>
         ELSE /\ Raise(stdout, <<"Failed to read audio file: ", input_path>>)
              /\ UNCHANGED <<original_sr, audio>>
    /\ UNCHANGED <<argVars, fsVars, acqVars, detector_input,
                   speech_timestamps, loopVars, stderr, exit_code>>

\* librosa.resample: the output has ceil(n * target_sr / orig_sr) samples
ResampledLen(n, orig_sr, target_sr) ==
    (n * target_sr + orig_sr - 1) \div orig_sr

\* resampling only when the native rate is above the target
NeedsResample_DownOnly(sr) == sr > TargetRate

\* line 90: the guard of the resampling step
NeedsResample(sr) == sr # TargetRate

\* lines 90-94, original_sr != 16000: librosa.resample to 16000
Resample ==
    /\ pc = "resample"
    /\ NeedsResample(original_sr)
    /\ \E ok \in BOOLEAN :
         IF ok
         THEN /\ audio' = [audio EXCEPT
                     !.rate = TargetRate,
                     !.len = ResampledLen(audio.len, original_sr, TargetRate),
                     !.resamples = @ + 1]
              /\ pc' = "detect"
              /\ UNCHANGED <<result, stdout>>
         ELSE /\ Raise(stdout, <<"resample failed", "">>)
              /\ UNCHANGED audio
    /\ UNCHANGED <<argVars, fsVars, acqVars, original_sr, detector_input,
                   speech_timestamps, loopVars, stderr, exit_code, started>>

\* lines 90-94, original_sr == 16000: the samples go on as decoded
SkipResample ==
    /\ pc = "resample"
    /\ ~NeedsResample(original_sr)
    /\ pc' = "detect"
    /\ UNCHANGED <<argVars, fsVars, acqVars, audioVars, loopVars, result,
                   stdout, stderr, exit_code, started>>

\* ----------------------------------------------------------------- detector
\* sample positions the detector reports in the model, for a buffer of n
\* samples
SamplePoints(n) == {p \in {0, SamplesPerMs - 1, SamplesPerMs, n} : p <= n}

\* SpeechInterval: 0 <= start < end <= len(buffer).  The detector is a
\* library; this is the interface it is consumed under (silero-vad reports
\* non-empty intervals inside the buffer).
Intervals(n) ==
    {iv \in [start : SamplePoints(n), end : SamplePoints(n)] :
        iv.start < iv.end}

\* interval lists of length 0..MaxIntervals, in any order, overlaps allowed
IntervalLists(n) ==
    UNION {[1..k -> Intervals(n)] : k \in 0..MaxIntervals}

\* line 97: get_speech_timestamps(audio, vad_model, sampling_rate=16000)
Detect ==
    /\ pc = "detect"
    /\ started' = Append(started, "detect")
    /\ detector_input' = audio
    /\ \E ok \in BOOLEAN :
         IF ok
         THEN /\ \E ts \in IntervalLists(audio.len) : speech_timestamps' = ts
              /\ pc' = "extract"
              /\ UNCHANGED <<result, stdout>>
         ELSE /\ Raise(stdout, <<"detector error", "">>)
              /\ UNCHANGED speech_timestamps
    /\ UNCHANGED <<argVars, fsVars, acqVars, original_sr, audio, loopVars,
                   stderr, exit_code>>

\* --------------------------------------------------------------- extraction
\* floor division (//) in place of true division
ToMs_Floor(n) == [whole |-> n \div SamplesPerMs, frac |-> 0]

\* n / 16 of lines 115, 121, 122: Python true division of a sample count.
\* The quotient is exact in binary floating point; it is kept as whole
\* milliseconds plus sixteenths of a millisecond.
ToMs(n) == [whole |-> n \div SamplesPerMs, frac |-> n % SamplesPerMs]

\* a - b on millisecond values
MsSub(a, b) ==
    IF a.frac >= b.frac
    THEN [whole |-> a.whole - b.whole, frac |-> a.frac - b.frac]
    ELSE [whole |-> a.whole - b.whole - 1,
          frac |-> a.frac + SamplesPerMs - b.frac]

\* a < b on millisecond values
MsLt(a, b) == a.whole < b.whole \/ (a.whole = b.whole /\ a.frac < b.frac)

\* line 103: Path(output_dir) / f"segment_{i+1}.wav"
SegmentPath(dir, k) ==
    [dir |-> dir, stem |-> "segment_", n |-> k, ext |-> ".wav"]

Min(a, b) == IF a < b THEN a ELSE b

\* lines 106-112: audio[ts['start']:ts['end']] (Python slicing clamps to the
\* buffer) as written by soundfile.write(..., 16000, subtype='PCM_16')
SegmentFile(k, buf, ts, st) ==
    [n |-> k,
     from |-> Min(ts.start, buf.len),
     to |-> Min(ts.end, buf.len),
     rate |-> TargetRate,
     subtype |-> "PCM_16",
     channel |-> buf.channel,
     state |-> st]

\* the file segment_k.wav is created or overwritten
WriteFile(d, f) == {g \in d : g.n # f.n} \cup {f}

\* a handler that removes the segment files of the run
DiskAfterFailedWrite_Cleanup(d, f, partial) ==
    {g \in d : g.state = "stale"}

\* lines 107-112 raising: soundfile.write fails before (partial = FALSE) or
\* after (partial = TRUE) it has created the file; lines 132-138 delete
\* nothing
DiskAfterFailedWrite(d, f, partial) ==
    IF partial THEN WriteFile(d, f) ELSE d

\* the 0-based loop index used as the segment index
SegmentInfo_ZeroBased(k, ts) ==
    [index |-> k - 1,
     path |-> SegmentPath(output_dir, k),
     start_time |-> ToMs(ts.start),
     end_time |-> ToMs(ts.end),
     duration |-> ToMs(ts.end - ts.start)]

\* lines 115-124: the entry appended for the k-th interval
SegmentInfo(k, ts) ==
    [index |-> k,
     path |-> SegmentPath(output_dir, k),
     start_time |-> ToMs(ts.start),
     end_time |-> ToMs(ts.end),
     duration |-> ToMs(ts.end - ts.start)]

\* line 100: segments_info = []
BeginExtract ==
    /\ pc = "extract"
    /\ started' = Append(started, "extract")
    /\ segments_info' = <<>>
    /\ i' = 0
    /\ pc' = "loop"
    /\ UNCHANGED <<argVars, fsVars, acqVars, audioVars, result, stdout,
                   stderr, exit_code>>

\* lines 101-124: one iteration of the loop
ExtractSegment ==
    /\ pc = "loop"
    /\ i < Len(speech_timestamps)
    /\ LET ts == speech_timestamps[i + 1] IN
       \E ok \in BOOLEAN, partial \in BOOLEAN :
         IF ok
         THEN /\ disk' = WriteFile(disk,
                             SegmentFile(i + 1, audio, ts, "complete"))
              /\ written' = Append(written, i + 1)
              /\ segments_info' = Append(segments_info,
                                         SegmentInfo(i + 1, ts))
              /\ i' = i + 1
              /\ UNCHANGED <<pc, result, stdout>>
         ELSE \* soundfile.write raised, before or after creating the file
              /\ disk' = DiskAfterFailedWrite(disk,
                             SegmentFile(i + 1, audio, ts, "partial"),
                             partial)
              /\ Raise(stdout, <<"Error opening segment file in ", output_dir>>)
              /\ UNCHANGED <<written, segments_info, i>>
    /\ UNCHANGED <<argVars, dir_exists, acqVars, audioVars, stderr,
                   exit_code, started>>

\* lines 127-130: the loop is over, the success shape is returned
BuildSuccess ==
    /\ pc = "loop"
    /\ i = Len(speech_timestamps)
    /\ started' = Append(started, "result")
    /\ result' = [status |-> "success", segments |-> segments_info]
    /\ pc' = "return"
    /\ UNCHANGED <<argVars, fsVars, acqVars, audioVars, loopVars, stdout,
                   stderr, exit_code>>

\* ================================================================== claims
ErrorShape(r) == DOMAIN r = {"status", "error"} /\ r.status = "error"
SuccessShape(r) == DOMAIN r = {"status", "segments"} /\ r.status = "success"
Returned == pc \in {"return", "exited"} /\ argc = ExpectedArgc
IsPrefix(s, t) == Len(s) <= Len(t) /\ \A k \in 1..Len(s) : s[k] = t[k]
Has(s, x) == \E k \in 1..Len(s) : s[k] = x
FromMs(t) == t.whole * SamplesPerMs + t.frac

C2_StdoutOnlyResult ==
    (pc = "exited" /\ argc = ExpectedArgc) => stdout = <<"PipelineResult JSON">>

\* C3: the stages start in the fixed order validate, mkdir, acquire,
\* normalize, detect, extract, result; segment files are written only once
\* extraction has started; and once a stage has failed no further stage
\* starts and no file is written.
C3_FixedOrderShortCircuit ==
    /\ [](IsPrefix(started, StageOrder)
           /\ (written # <<>> => Has(started, "extract")))
    /\ [][result.status = "error"
            => (started' = started /\ written' = written /\ disk' = disk)]_vars

\* the detector failed: extraction never started, nothing was written
C3_Witness ==
    /\ pc = "exited"
    /\ ErrorShape(result)
    /\ started = <<"validate", "mkdir", "acquire", "normalize", "detect">>
    /\ written = <<>>

\* C4: when input_path is not a file the error shape names the missing path
\* and nothing else happened: the output directory and its files are as
\* before, no acquisition strategy ran, no decode ran.
C4_MissingInputFailsFast ==
    (Returned /\ ~input_is_file) =>
        /\ ErrorShape(result)
        /\ result.error = <<"Input audio file not found: ", input_path>>
        /\ dir_exists = initial.dir_exists
        /\ disk = initial.disk
        /\ started = <<"validate">>
        /\ failures = <<>> /\ netAccess = {} /\ vad_model = 0
        /\ audio = NoAudio

\* the input is missing and the output directory did not exist
C4_Witness ==
    /\ pc = "exited"
    /\ ~input_is_file
    /\ argc = ExpectedArgc
    /\ ~initial.dir_exists

\* C5: strategy 2 never touches the network.
C5_CacheOnlyNoNetwork == 2 \notin netAccess

\* C6: the strategies are tried in the order 1, 2, 3; the model in use is
\* the one of the first strategy that succeeded and nothing was tried after
\* it; acquisition fails only after three failures, and the error returned
\* then carries the message of the strategy-3 failure; when a strategy
\* succeeded the earlier failures are not the result.
C6_AcquisitionFallback ==
    /\ Len(failures) <= 3
    /\ \A k \in 1..Len(failures) : failures[k].strategy = k
    /\ vad_model # 0 => Len(failures) = vad_model - 1
    /\ (vad_model = 0 /\ pc \notin {"main", "validate", "mkdir", "load1",
                                    "load2", "load3"}
           /\ Has(started, "acquire")) => Len(failures) = 3
    /\ Len(failures) = 3 =>
           /\ vad_model = 0
           /\ result = [status |-> "error",
                        error |-> <<"All attempts to load VAD model failed: ",
                                    failures[3].msg>>]
           /\ failures[3].msg \notin {failures[1].msg, failures[2].msg}
    /\ (vad_model # 0 /\ result.status = "error") =>
           \A k \in 1..Len(failures) : result.error[2] # failures[k].msg

\* strategy 1 failed, strategy 2 produced the model, the run succeeded
C6_Witness ==
    /\ pc = "exited"
    /\ vad_model = 2
    /\ Len(failures) = 1
    /\ SuccessShape(result)

\* C7: a success result has one entry per detector interval, the k-th entry
\* has index k and path output_dir/segment_k.wav and carries the bounds of
\* the k-th interval, and segment_k.wav on disk holds the k-th slice; an
\* empty interval list gives an empty list.
C7_SegmentsFollowIntervals ==
    SuccessShape(result) =>
        /\ Len(result.segments) = Len(speech_timestamps)
        /\ \A k \in 1..Len(speech_timestamps) :
             LET seg == result.segments[k]
                 ts == speech_timestamps[k]
             IN /\ seg.index = k
                /\ seg.path = [dir |-> output_dir, stem |-> "segment_",
                               n |-> k, ext |-> ".wav"]
                /\ FromMs(seg.start_time) = ts.start
                /\ FromMs(seg.end_time) = ts.end
                /\ \E f \in disk : /\ f.n = k
                                   /\ f.from = ts.start /\ f.to = ts.end
                                   /\ f.state = "complete"

\* a success whose intervals are out of order and overlap
C7_Witness ==
    /\ SuccessShape(result)
    /\ Len(result.segments) = MaxIntervals
    /\ speech_timestamps[1].start > speech_timestamps[2].start
    /\ speech_timestamps[1].end > speech_timestamps[2].end
    /\ speech_timestamps[3] = speech_timestamps[1]

\* C8: in a success result every segment has start_time = start / 16,
\* end_time = end / 16, duration = end_time - start_time, and
\* start_time < end_time, so duration > 0.
C8_Timing ==
    SuccessShape(result) =>
        \A k \in 1..Len(result.segments) :
            LET seg == result.segments[k]
                ts == speech_timestamps[k]
            IN /\ seg.start_time.frac \in 0..(SamplesPerMs - 1)
               /\ seg.end_time.frac \in 0..(SamplesPerMs - 1)
               /\ FromMs(seg.start_time) = ts.start
               /\ FromMs(seg.end_time) = ts.end
               /\ seg.duration = MsSub(seg.end_time, seg.start_time)
               /\ MsLt(seg.start_time, seg.end_time)
               /\ MsLt([whole |-> 0, frac |-> 0], seg.duration)

\* a success with a segment from sample 15 to sample 16 (0.9375 ms to 1 ms)
C8_Witness ==
    /\ SuccessShape(result)
    /\ \E k \in 1..Len(result.segments) :
         /\ result.segments[k].start_time.frac > result.segments[k].end_time.frac
         /\ result.segments[k].duration = [whole |-> 0, frac |-> 1]

\* C9: the buffer the detector receives is channel 0 at 16000 Hz; it was
\* resampled exactly once when the native rate is not 16000 and not at all
\* when it is; the buffer sliced for the segments is the one the detector
\* saw.
C9_DetectorSeesCanonicalRate ==
    Has(started, "detect") =>
        /\ detector_input.channel = 0
        /\ detector_input.rate = TargetRate
        /\ detector_input.resamples = (IF original_sr = TargetRate THEN 0 ELSE 1)
        /\ audio = detector_input
        /\ \A f \in disk : f.state # "stale" =>
               (f.channel = 0 /\ f.rate = TargetRate /\ f.to <= detector_input.len)

\* an 8000 Hz file was resampled once, detected and sliced
C9_Witness ==
    /\ original_sr = 8000
    /\ detector_input.rate = TargetRate
    /\ detector_input.resamples = 1
    /\ written # <<>>

\* C10: when the write of segment k fails, the error shape comes back, the
\* k-1 files written before are on disk with their slices, and no file
\* after k was written: the files numbered above k are those that were
\* there before the run.
C10_PartialWriteLeftOnDisk ==
    (Returned /\ result.status = "error" /\ Has(started, "extract")) =>
        LET k == i + 1 IN
        /\ k \in 1..Len(speech_timestamps)
        /\ ErrorShape(result)
        /\ written = [j \in 1..(k - 1) |-> j]
        /\ \A j \in 1..(k - 1) :
             \E f \in disk : /\ f.n = j /\ f.state = "complete"
                             /\ f.from = speech_timestamps[j].start
                             /\ f.to = speech_timestamps[j].end
        /\ \A f \in disk : f.n > k => f \in initial.disk

\* the second of three writes failed
C10_Witness ==
    /\ pc = "exited"
    /\ result.status = "error"
    /\ Has(started, "extract")
    /\ i = 1
    /\ Len(speech_timestamps) = 3

Next ==
    \/ MainBadArgs
    \/ MainCall
    \/ MainPrint
    \/ ValidateInput
    \/ EnsureOutputDir
    \/ Load1
    \/ Load2
    \/ Load3
    \/ Decode
    \/ Resample
    \/ SkipResample
    \/ Detect
    \/ BeginExtract
    \/ ExtractSegment
    \/ BuildSuccess

Spec == Init /\ [][Next]_vars
====
